---- MODULE Spec2Model ----
(***************************************************************************)
(* parakeet: file names of the form                                        *)
(*     {timestamp}--{comment}__{tag1}_{tag2}.{extension}                   *)
(* The module models the file-name codec (format.go), batch generation     *)
(* (rename.go), tag setting and interactive tag editing (tag.go) and       *)
(* directory validation (validate.go).                                     *)
(*                                                                         *)
(* A string is a sequence of symbols.  A symbol is one byte ("a", "-",     *)
(* "_", ".", "|") or a block that stands for a run of bytes that holds no  *)
(* delimiter: "T1", "T2", ... are 15-byte timestamps as time.Format        *)
(* writes them, "tag" and "toml" are the words of the name tag.toml.       *)
(***************************************************************************)
EXTENDS Integers, Sequences, FiniteSets, TLC

VARIABLES dir, tomlContent, clock, ops, last, cin, cout, uniq, sess

vars == <<dir, tomlContent, clock, ops, last, cin, cout, uniq, sess>>

-----------------------------------------------------------------------------
(* Bounds *)

MaxLen == 6

MaxFiles == 2

MaxTags == 2

MaxClock == 2

MaxOps == 2

MaxRounds == 2

MaxExisting == 2

MaxRequests == 3

MaxEntries == 3

-----------------------------------------------------------------------------
(* Symbols and strings *)

TimestampLen == 15

Timestamps == {"T1", "T2", "T3", "T4", "T5", "T6", "T7", "T8", "T9", "T10"}

\* time.Format("20060102T150405") of the n-th second
TimestampOf(n) == <<"T1", "T2", "T3", "T4", "T5", "T6", "T7", "T8", "T9", "T10">>[n]

\* the last second the symbols can name
MaxSecond == Cardinality(Timestamps)

Words == {"tag", "toml"}

\* Byte order of the first byte of a symbol, as sort.Strings and os.ReadDir
\* compare names: '-' < '.' < digits < '_' < letters < '|'.
Ord(c) ==
  CASE c = "-" -> 45
    [] c = "." -> 46
    [] c = "T1" -> 50
    [] c = "T2" -> 51
    [] c = "T3" -> 52
    [] c = "T4" -> 53
    [] c = "T5" -> 54
    [] c = "T6" -> 55
    [] c = "T7" -> 56
    [] c = "T8" -> 57
    [] c = "T9" -> 58
    [] c = "T10" -> 59
    [] c = "_" -> 95
    [] c = "A" -> 65
    [] c = "a" -> 97
    [] c = "b" -> 98
    [] c = "tag" -> 116
    [] c = "toml" -> 117
    [] c = "|" -> 124
    [] OTHER -> 0

\* Number of bytes of a symbol.
Width(c) ==
  CASE c \in Timestamps -> TimestampLen
    [] c = "tag" -> 3
    [] c = "toml" -> 4
    [] OTHER -> 1

RECURSIVE ByteLen(_)
\* len(s)
ByteLen(s) == IF s = <<>> THEN 0 ELSE Width(Head(s)) + ByteLen(Tail(s))

\* All strings over alphabet A of at most n symbols.
Strings(A, n) == UNION {[1..k -> A] : k \in 0..n}

Dash == <<"-", "-">>

Under == <<"_", "_">>

TagSep == <<"_">>

Dot == <<".">>

\* s[i:]
From(s, i) == SubSeq(s, i, Len(s))

\* s[:i-1]
Upto(s, i) == SubSeq(s, 1, i - 1)

\* sep occurs in s at position i
OccursAt(s, sep, i) ==
  /\ i >= 1
  /\ i + Len(sep) - 1 <= Len(s)
  /\ SubSeq(s, i, i + Len(sep) - 1) = sep

\* strings.Index, 1-based; 0 when sep does not occur
Index(s, sep) ==
  IF \E i \in 1..Len(s) : OccursAt(s, sep, i)
  THEN CHOOSE i \in 1..Len(s) :
         /\ OccursAt(s, sep, i)
         /\ \A j \in 1..(i - 1) : ~OccursAt(s, sep, j)
  ELSE 0

RECURSIVE SplitN(_, _, _)
\* strings.SplitN(s, sep, n) for a non-empty sep and n >= 1: cut at the
\* leftmost occurrences, at most n pieces.
SplitN(s, sep, n) ==
  IF n = 1 \/ Index(s, sep) = 0
  THEN <<s>>
  ELSE <<Upto(s, Index(s, sep))>>
         \o SplitN(From(s, Index(s, sep) + Len(sep)), sep, n - 1)

RECURSIVE Split(_, _)
\* strings.Split(s, sep) for a non-empty sep
Split(s, sep) ==
  IF Index(s, sep) = 0
  THEN <<s>>
  ELSE <<Upto(s, Index(s, sep))>> \o Split(From(s, Index(s, sep) + Len(sep)), sep)

RECURSIVE Join(_, _)
\* strings.Join(elems, sep)
Join(elems, sep) ==
  IF elems = <<>> THEN <<>>
  ELSE IF Len(elems) = 1 THEN elems[1]
  ELSE elems[1] \o sep \o Join(Tail(elems), sep)

RECURSIVE Flatten(_)
\* append(acc, pieces...) over a list of lists
Flatten(ss) == IF ss = <<>> THEN <<>> ELSE Head(ss) \o Flatten(Tail(ss))

\* filepath.Ext: the suffix from the last '.' of the last path element
Ext(path) ==
  IF \E i \in 1..Len(path) : path[i] = "."
  THEN From(path, CHOOSE i \in 1..Len(path) :
                    /\ path[i] = "."
                    /\ \A j \in (i + 1)..Len(path) : path[j] # ".")
  ELSE <<>>

\* strings.TrimSuffix that never finds the suffix
TrimSuffix_Never(s, suffix) == s

\* strings.TrimSuffix
TrimSuffix(s, suffix) ==
  IF Len(suffix) <= Len(s) /\ From(s, Len(s) - Len(suffix) + 1) = suffix
  THEN Upto(s, Len(s) - Len(suffix) + 1)
  ELSE s

RECURSIVE Less(_, _)
\* s < t, byte-wise
Less(s, t) ==
  IF t = <<>> THEN FALSE
  ELSE IF s = <<>> THEN TRUE
  ELSE IF Head(s) # Head(t) THEN Ord(Head(s)) < Ord(Head(t))
  ELSE Less(Tail(s), Tail(t))

RECURSIVE Insert(_, _)
Insert(x, sorted) ==
  IF sorted = <<>> THEN <<x>>
  ELSE IF Less(Head(sorted), x) \/ Head(sorted) = x
       THEN <<Head(sorted)>> \o Insert(x, Tail(sorted))
       ELSE <<x>> \o sorted

RECURSIVE SortStrings(_)
\* sort.Strings: ascending, repetitions kept
SortStrings(ss) == IF ss = <<>> THEN <<>> ELSE Insert(Head(ss), SortStrings(Tail(ss)))

Range(f) == {f[x] : x \in DOMAIN f}

-----------------------------------------------------------------------------
(* format.go *)

\* a failed ParseFileName: (nil, err)
NoComponents ==
  [ok |-> FALSE, Timestamp |-> <<>>, Comment |-> <<>>, Tags |-> <<>>, Extension |-> <<>>]

Components(ts, comment, tags, ext) ==
  [ok |-> TRUE, Timestamp |-> ts, Comment |-> comment, Tags |-> tags, Extension |-> ext]

\* FormatFileName without the len(c.Tags) > 0 guard
FormatFileName_NoTagGuard(c) ==
  LET baseName == Join(<<c.Timestamp \o Dash \o c.Comment, Join(c.Tags, TagSep)>>, Under)
  IN IF c.Extension # <<>> THEN baseName \o Dot \o c.Extension ELSE baseName

FormatFileName(c) ==
  LET parts == <<c.Timestamp \o Dash \o c.Comment>>
                 \o (IF Len(c.Tags) > 0 THEN <<Join(c.Tags, TagSep)>> ELSE <<>>)
      baseName == Join(parts, Under)
  IN IF c.Extension # <<>> THEN baseName \o Dot \o c.Extension ELSE baseName

\* ParseFileName looking for "--" in the whole base name, not in parts[0]
ParseFileName_DashAnywhere(filename) ==
  LET ext0  == Ext(filename)
      baseName == TrimSuffix(filename, ext0)
      ext == IF ext0 # <<>> THEN Tail(ext0) ELSE ext0
      timestampCommentParts == SplitN(baseName, Dash, 2)
      parts == Split(IF Len(timestampCommentParts) = 2 THEN timestampCommentParts[2] ELSE <<>>,
                     Under)
  IN IF Len(timestampCommentParts) # 2
     THEN NoComponents
     ELSE Components(timestampCommentParts[1], parts[1],
                     Flatten([i \in 1..(Len(parts) - 1) |-> Split(parts[i + 1], TagSep)]),
                     ext)

\* ParseFileName reading the tags of parts[1] only
ParseFileName_FirstGroupOnly(filename) ==
  LET ext0  == Ext(filename)
      baseName == TrimSuffix(filename, ext0)
      ext == IF ext0 # <<>> THEN Tail(ext0) ELSE ext0
      parts == Split(baseName, Under)
      timestampCommentParts == SplitN(parts[1], Dash, 2)
  IN IF Len(timestampCommentParts) # 2
     THEN NoComponents
     ELSE Components(timestampCommentParts[1], timestampCommentParts[2],
                     IF Len(parts) > 1 THEN Split(parts[2], TagSep) ELSE <<>>,
                     ext)

ParseFileName(filename) ==
  LET ext0  == Ext(filename)
      baseName == TrimSuffix(filename, ext0)
      ext == IF ext0 # <<>> THEN Tail(ext0) ELSE ext0
      parts == Split(baseName, Under)
      timestampCommentParts == SplitN(parts[1], Dash, 2)
  IN IF Len(timestampCommentParts) # 2
     THEN NoComponents
     ELSE Components(timestampCommentParts[1], timestampCommentParts[2],
                     Flatten([i \in 1..(Len(parts) - 1) |-> Split(parts[i + 1], TagSep)]),
                     ext)

IsFormatted(filename) == ParseFileName(filename).ok

-----------------------------------------------------------------------------
(* The codec as pure functions: inputs drawn at Init, one application each *)

Alphabet == {"a", "-", "_", ".", "|"}

FieldMark == <<"|">>

\* A bounded Record cut out of a symbol string at the field marks: the first
\* field is the comment, the last one (when there are two or more) the
\* extension, the ones between are the tags.
RecordOf(s) ==
  LET f == Split(s, FieldMark)
  IN Components(<<"T1">>, f[1],
                IF Len(f) > 2 THEN SubSeq(f, 2, Len(f) - 1) ELSE <<>>,
                IF Len(f) > 1 THEN f[Len(f)] ELSE <<>>)

CodecIdle ==
  [op |-> "none", rec |-> NoComponents, name |-> <<>>, parsed |-> NoComponents]

InitCodec ==
  /\ cin \in Strings(Alphabet, MaxLen)
  /\ cout = CodecIdle
  /\ uniq = [pc |-> "none"]
  /\ sess = [pc |-> "none"]
  /\ dir = <<>>
  /\ tomlContent = <<>>
  /\ clock = 1
  /\ ops = 0
  /\ last = [op |-> "none"]

\* ParseFileName(cin)
Decode ==
  /\ cout.op = "none"
  /\ cout' = [op |-> "decode", rec |-> NoComponents, name |-> cin,
              parsed |-> ParseFileName(cin)]
  /\ UNCHANGED <<dir, tomlContent, clock, ops, last, cin, uniq, sess>>

\* r.FormatFileName() and ParseFileName of it, r the Record cut out of cin
Encode ==
  /\ cout.op = "none"
  /\ cout' = [op |-> "encode", rec |-> RecordOf(cin),
              name |-> FormatFileName(RecordOf(cin)),
              parsed |-> ParseFileName(FormatFileName(RecordOf(cin)))]
  /\ UNCHANGED <<dir, tomlContent, clock, ops, last, cin, uniq, sess>>

NextCodec == Decode \/ Encode

SpecCodec == InitCodec /\ [][NextCodec]_vars

-----------------------------------------------------------------------------
(* The directory: name -> [id, isDir].  id tells files apart whatever their *)
(* name, so that a replaced file shows as a lost id.                        *)

TomlName == <<"tag", ".", "toml">>

\* os.Stat(path) succeeds
Exists(d, name) == name \in DOMAIN d

RECURSIVE SortSet(_)
\* the names of S in byte order
SortSet(S) ==
  IF S = {} THEN <<>>
  ELSE LET m == CHOOSE x \in S : \A y \in S \ {x} : Less(x, y)
       IN <<m>> \o SortSet(S \ {m})

\* os.ReadDir: the entries sorted by file name
ReadDir(d) == SortSet(DOMAIN d)

\* os.Rename fails: a fault of the file system, or a file moved onto a directory
RenameFails(d, old, new, fault) ==
  fault \/ (new # old /\ Exists(d, new) /\ d[new].isDir)

\* a rename that leaves the old name in place as well
OsRename_KeepsOld(d, old, new) ==
  [n \in DOMAIN d \cup {new} |-> IF n = new THEN d[old] ELSE d[n]]

\* os.Rename succeeded: new names the file old named; a file that new named
\* before is replaced
OsRename(d, old, new) ==
  [n \in (DOMAIN d \ {old}) \cup {new} |-> IF n = new THEN d[old] ELSE d[n]]

GenerateTimestamp == <<TimestampOf(clock)>>

-----------------------------------------------------------------------------
(* format.go: MatchesExtensions *)

\* unicode.ToLower of the letters of the model
Fold(c) == IF c = "A" THEN "a" ELSE c

\* a comparison that minds the case
EqualFold_Exact(s, t) == s = t

\* strings.EqualFold
EqualFold(s, t) ==
  /\ Len(s) = Len(t)
  /\ \A i \in 1..Len(s) : Fold(s[i]) = Fold(t[i])

MatchesExtensions(filename, extensions) ==
  IF Len(extensions) = 0 THEN TRUE
  ELSE LET ext0 == Ext(filename)
           ext == IF ext0 # <<>> THEN Tail(ext0) ELSE ext0
       IN \E i \in 1..Len(extensions) : EqualFold(ext, extensions[i])

-----------------------------------------------------------------------------
(* rename.go: GenerateFileNames *)

\* the extension lists --ext may give: none, "a", "A"
ExtFilters == {<<>>, <<<<"a">>>>, <<<<"A">>>>}

\* the entry is outside the extension filter of the batch and is passed over
\* without a count (the rename.go that reads RenameOptions.Extensions is not
\* among the sources; main.go sets the field and the tests fix the counts)
OutsideFilter(oldName, opts) == ~MatchesExtensions(oldName, opts.Extensions)

\* an entry with a well-formed name that is counted as processed
AlreadyFormatted_Processed(st, oldName, opts) ==
  [st EXCEPT !.processed = @ + 1,
             !.out = IF opts.Verbose
                     THEN Append(@, [msg |-> "Skipped", old |-> oldName, new |-> oldName])
                     ELSE @]

\* the entry has a well-formed name already: it is counted as skipped
AlreadyFormatted(st, oldName, opts) ==
  [st EXCEPT !.skipped = @ + 1,
             !.out = IF opts.Verbose
                     THEN Append(@, [msg |-> "Skipped", old |-> oldName, new |-> oldName])
                     ELSE @]

\* a failed rename that is counted as processed all the same
RenameError_Counted(st, oldName, newName) ==
  [st EXCEPT !.processed = @ + 1,
             !.out = Append(@, [msg |-> "Error renaming", old |-> oldName, new |-> newName])]

\* os.Rename failed: the error is written and the loop continues, no count
\* changed
RenameError(st, oldName, newName) ==
  [st EXCEPT !.out = Append(@, [msg |-> "Error renaming", old |-> oldName, new |-> newName])]

RECURSIVE GenLoop(_, _, _, _, _, _)
\* the loop over the entries; st = [dir, processed, skipped, out]
GenLoop(entries, snap, timestamp, opts, faults, st) ==
  IF entries = <<>> THEN st
  ELSE
    LET oldName == Head(entries)
        rest == Tail(entries)
        ext0 == Ext(oldName)
        baseName == TrimSuffix(oldName, ext0)
        ext == IF ext0 # <<>> THEN Tail(ext0) ELSE ext0
        newName == FormatFileName(Components(timestamp, baseName, <<>>, ext))
    IN IF snap[oldName].isDir
       THEN GenLoop(rest, snap, timestamp, opts, faults, st)
       ELSE IF OutsideFilter(oldName, opts)
       THEN GenLoop(rest, snap, timestamp, opts, faults, st)
       ELSE IF IsFormatted(oldName)
       THEN GenLoop(rest, snap, timestamp, opts, faults, AlreadyFormatted(st, oldName, opts))
       ELSE IF Exists(st.dir, newName)
       THEN GenLoop(rest, snap, timestamp, opts, faults,
                    [st EXCEPT !.skipped = @ + 1,
                               !.out = Append(@, [msg |-> "Warning: target file already exists",
                                                  old |-> oldName, new |-> newName])])
       ELSE IF opts.DryRun
       THEN GenLoop(rest, snap, timestamp, opts, faults,
                    [st EXCEPT !.processed = @ + 1,
                               !.out = Append(@, [msg |-> "Would rename", old |-> oldName,
                                                  new |-> newName])])
       ELSE IF RenameFails(st.dir, oldName, newName, oldName \in faults)
       THEN GenLoop(rest, snap, timestamp, opts, faults, RenameError(st, oldName, newName))
       ELSE GenLoop(rest, snap, timestamp, opts, faults,
                    [st EXCEPT !.dir = OsRename(@, oldName, newName),
                               !.processed = @ + 1,
                               !.out = IF opts.Verbose
                                       THEN Append(@, [msg |-> "Renamed", old |-> oldName,
                                                        new |-> newName])
                                       ELSE @])

RenameOptions == [DryRun : BOOLEAN, Verbose : BOOLEAN, Extensions : ExtFilters]

\* GenerateFileNames(targetDir, opts)
GenerateFileNames(present, opts, faults) ==
  /\ last.op = "none"
  /\ ops < MaxOps
  /\ ops' = ops + 1
  /\ IF ~present
     THEN /\ last' = [op |-> "generate", err |-> "directory does not exist", opts |-> opts,
                      before |-> dir, timestamp |-> <<>>, processed |-> 0, skipped |-> 0,
                      out |-> <<>>]
          /\ dir' = dir
     ELSE LET r == GenLoop(ReadDir(dir), dir, GenerateTimestamp, opts, faults,
                           [dir |-> dir, processed |-> 0, skipped |-> 0, out |-> <<>>])
          IN /\ dir' = r.dir
             /\ last' = [op |-> "generate", err |-> "", opts |-> opts, before |-> dir,
                         timestamp |-> GenerateTimestamp, processed |-> r.processed,
                         skipped |-> r.skipped, out |-> r.out]
  /\ UNCHANGED <<tomlContent, clock, cin, cout, uniq, sess>>

-----------------------------------------------------------------------------
(* tag.go: tagsEqual, SetTags *)

\* tagsEqual that finds every two lists different
TagsEqual_Never(a, b) == FALSE

\* tagsEqual compared without sorting the two copies
TagsEqual_Unsorted(a, b) == a = b

tagsEqual(a, b) ==
  IF Len(a) # Len(b) THEN FALSE
  ELSE \A i \in 1..Len(a) : SortStrings(a)[i] = SortStrings(b)[i]

\* SetTags(filePath, tags, w)
SetTags(filePath, tags0) ==
  /\ last.op = "none"
  /\ ops < MaxOps
  /\ ops' = ops + 1
  /\ LET components == ParseFileName(filePath)
         tags == SortStrings(tags0)
         newFileName == FormatFileName([components EXCEPT !.Tags = tags])
         res(err, changed, new) ==
           [op |-> "settags", file |-> filePath, tags |-> tags0, err |-> err,
            changed |-> changed, newName |-> new, before |-> dir]
     IN IF ~Exists(dir, filePath)
        THEN dir' = dir /\ last' = res("file does not exist", FALSE, <<>>)
        ELSE IF dir[filePath].isDir
        THEN dir' = dir /\ last' = res("cannot set tags for directory", FALSE, <<>>)
        ELSE IF ~components.ok
        THEN dir' = dir /\ last' = res("file name is not in correct format", FALSE, <<>>)
        ELSE IF ~tagsEqual(components.Tags, tags)
        THEN IF RenameFails(dir, filePath, newFileName, FALSE)
             THEN dir' = dir /\ last' = res("failed to rename file", TRUE, newFileName)
             ELSE /\ dir' = OsRename(dir, filePath, newFileName)
                  /\ last' = res("", TRUE, newFileName)
        ELSE dir' = dir /\ last' = res("", FALSE, <<>>)
  /\ UNCHANGED <<tomlContent, clock, cin, cout, uniq, sess>>

-----------------------------------------------------------------------------
(* tag.go: LoadTagsFromTOML *)

\* what a tag.toml can hold: broken syntax, no [[tag]] table, one tag "a"
RegistryContents ==
  { [syntaxOk |-> FALSE, Tag |-> <<>>],
    [syntaxOk |-> TRUE, Tag |-> <<>>],
    [syntaxOk |-> TRUE, Tag |-> <<[Key |-> <<"a">>, Desc |-> <<"b">>]>>] }

\* LoadTagsFromTOML that takes an absent file for an error
LoadTagsFromTOML_AbsentIsError(d, filePath, content) ==
  IF ~Exists(d, filePath) THEN [defs |-> <<>>, err |-> TRUE]
  ELSE IF ~content.syntaxOk THEN [defs |-> <<>>, err |-> TRUE]
  ELSE [defs |-> content.Tag, err |-> FALSE]

\* LoadTagsFromTOML(filePath) for the tag.toml of the directory
LoadTagsFromTOML(d, filePath, content) ==
  IF ~Exists(d, filePath) THEN [defs |-> <<>>, err |-> FALSE]
  ELSE IF ~content.syntaxOk THEN [defs |-> <<>>, err |-> TRUE]
  ELSE [defs |-> content.Tag, err |-> FALSE]

-----------------------------------------------------------------------------
(* tag.go: promptForCustomTag, promptForTags, EditTags *)

\* the registry promptForTags reads: ./tags.toml of the working directory
TagsTomlName == <<"tags", ".", "toml">>

\* the option "[+ Add custom tag]"
SentinelOption == <<"[+ Add custom tag]">>

\* " - " between a key and its description
DisplaySep == <<" ", "-", " ">>

RECURSIVE TrimSpace(_)
\* strings.TrimSpace
TrimSpace(s) ==
  IF s = <<>> THEN s
  ELSE IF Head(s) = " " THEN TrimSpace(Tail(s))
  ELSE IF s[Len(s)] = " " THEN TrimSpace(Upto(s, Len(s)))
  ELSE s

\* strings.ContainsAny
ContainsAny(s, chars) == \E i \in 1..Len(s) : s[i] \in chars

\* promptForCustomTag that checks no character
promptForCustomTag_Unchecked(input) ==
  IF input.err THEN [tag |-> <<>>, err |-> "interrupt"]
  ELSE [tag |-> TrimSpace(input.text), err |-> ""]

\* promptForCustomTag(): input is what survey.AskOne hands back, an error or
\* a text that survey.Required has seen to be non-empty
promptForCustomTag(input) ==
  IF input.err THEN [tag |-> <<>>, err |-> "interrupt"]
  ELSE LET tag == TrimSpace(input.text)
       IN IF ContainsAny(tag, {"/", "_", "-", "."})
          THEN [tag |-> <<>>, err |-> "tag cannot contain special characters (/, _, -, .)"]
          ELSE [tag |-> tag, err |-> ""]

\* tagDescMap: the description of every key that has one, the last definition
\* of a key winning
TagDescMap(tagDefs) ==
  LET described == {i \in 1..Len(tagDefs) : tagDefs[i].Desc # <<>>}
  IN [k \in {tagDefs[i].Key : i \in described} |->
        tagDefs[CHOOSE i \in described :
                  /\ tagDefs[i].Key = k
                  /\ \A j \in described : tagDefs[j].Key = k => j <= i].Desc]

formatDisplay(tagDescMap, key) ==
  IF key \in DOMAIN tagDescMap /\ tagDescMap[key] # <<>>
  THEN key \o DisplaySep \o tagDescMap[key]
  ELSE key

extractKey(displayText) == SplitN(displayText, DisplaySep, 2)[1]

RECURSIVE AddOptions(_, _, _)
\* the loops that fill tagOptions and seenTags; acc = [options, seen]
AddOptions(tags, tagDescMap, acc) ==
  IF tags = <<>> THEN acc
  ELSE IF Head(tags) \in acc.seen THEN AddOptions(Tail(tags), tagDescMap, acc)
  ELSE AddOptions(Tail(tags), tagDescMap,
                  [options |-> Append(acc.options, formatDisplay(tagDescMap, Head(tags))),
                   seen |-> acc.seen \cup {Head(tags)}])

RECURSIVE Checked(_, _, _)
\* the answer of survey.MultiSelect: the checked options in the order of the list
Checked(options, picks, i) ==
  IF i > Len(options) THEN <<>>
  ELSE (IF i \in picks THEN <<options[i]>> ELSE <<>>) \o Checked(options, picks, i + 1)

RECURSIVE FinalTags(_)
\* the keys of the selected options, the sentinel aside
FinalTags(selected) ==
  IF selected = <<>> THEN <<>>
  ELSE (IF Head(selected) = SentinelOption THEN <<>> ELSE <<extractKey(Head(selected))>>)
         \o FinalTags(Tail(selected))

\* formatDisplay over a list of tags
Displays(tagDescMap, tags) == [i \in 1..Len(tags) |-> formatDisplay(tagDescMap, tags[i])]

RECURSIVE PromptLoop(_, _, _, _, _)
\* the for loop of promptForTags over the answers of the user, one per round;
\* a user who stops answering interrupts the prompt
PromptLoop(tagDescMap, tagOptions, defaultSelection, answers, rounds) ==
  LET shown == Append(rounds, [options |-> tagOptions, default |-> defaultSelection])
  IN IF answers = <<>> \/ Head(answers).err
     THEN [tags |-> <<>>, err |-> "interrupt", rounds |-> shown]
     ELSE
       LET selected == Checked(tagOptions, Head(answers).picks, 1)
           addCustom == \E i \in 1..Len(selected) : selected[i] = SentinelOption
           finalTags == FinalTags(selected)
           custom == promptForCustomTag(Head(answers).custom)
       IN IF addCustom /\ custom.err # ""
          THEN [tags |-> <<>>, err |-> custom.err, rounds |-> shown]
          ELSE IF addCustom /\ custom.tag # <<>>
          THEN PromptLoop(tagDescMap,
                          <<formatDisplay(tagDescMap, custom.tag)>> \o tagOptions,
                          Displays(tagDescMap, Append(finalTags, custom.tag)),
                          Tail(answers), shown)
          ELSE [tags |-> SortStrings(finalTags), err |-> "", rounds |-> shown]

\* the options of the first round
TagOptions(currentTags, tagDefs) ==
  LET tagDescMap == TagDescMap(tagDefs)
      commonTags == [i \in 1..Len(tagDefs) |-> tagDefs[i].Key]
  IN Append(AddOptions(commonTags, tagDescMap,
                       AddOptions(currentTags, tagDescMap,
                                  [options |-> <<>>, seen |-> {}])).options,
            SentinelOption)

\* promptForTags(currentTags); registry is the tags.toml of the working
\* directory: absent, or a content
promptForTags(currentTags, registry, answers) ==
  LET loaded == LoadTagsFromTOML(IF registry.present
                                 THEN [n \in {TagsTomlName} |-> [id |-> 0, isDir |-> FALSE]]
                                 ELSE <<>>,
                                 TagsTomlName, registry.content)
      tagDefs == IF loaded.err THEN <<>> ELSE loaded.defs
      tagDescMap == TagDescMap(tagDefs)
  IN PromptLoop(tagDescMap, TagOptions(currentTags, tagDefs),
                Displays(tagDescMap, currentTags), answers, <<>>)

TagOptionsFlags == [Interactive : BOOLEAN]

\* EditTags(filePath, opts); components, newTags and newFileName are bound
\* once, as the assignments of the code
EditTags(filePath, opts, registry, answers) ==
  /\ last.op = "none"
  /\ ops < MaxOps
  /\ ops' = ops + 1
  /\ \E components \in {ParseFileName(filePath)} :
     \E prompted \in {promptForTags(components.Tags, registry, answers)} :
     \E newTags \in {prompted.tags} :
     \E newFileName \in {FormatFileName([components EXCEPT !.Tags = newTags])} :
     LET res(err, tags, changed, new) ==
           [op |-> "edittags", file |-> filePath, tags |-> tags, err |-> err,
            changed |-> changed, newName |-> new, before |-> dir]
     IN IF ~Exists(dir, filePath)
        THEN dir' = dir /\ last' = res("file does not exist", <<>>, FALSE, <<>>)
        ELSE IF dir[filePath].isDir
        THEN dir' = dir /\ last' = res("cannot edit tags for directory", <<>>, FALSE, <<>>)
        ELSE IF ~components.ok
        THEN dir' = dir /\ last' = res("file name is not in correct format", <<>>, FALSE, <<>>)
        ELSE IF ~opts.Interactive
        THEN dir' = dir /\ last' = res("", <<>>, FALSE, <<>>)
        ELSE IF prompted.err # ""
        THEN dir' = dir /\ last' = res("failed to get tags", <<>>, FALSE, <<>>)
        ELSE IF ~tagsEqual(components.Tags, newTags)
        THEN IF RenameFails(dir, filePath, newFileName, FALSE)
             THEN dir' = dir /\ last' = res("failed to rename file", newTags, TRUE, newFileName)
             ELSE /\ dir' = OsRename(dir, filePath, newFileName)
                  /\ last' = res("", newTags, TRUE, newFileName)
        ELSE dir' = dir /\ last' = res("", newTags, FALSE, <<>>)
  /\ UNCHANGED <<tomlContent, clock, cin, cout, uniq, sess>>

-----------------------------------------------------------------------------
(* validate.go *)

\* ValidateFileName(filename): "" when the name is valid
ValidateFileName(filename) ==
  LET components == ParseFileName(filename)
  IN IF ~components.ok THEN "invalid timestamp-comment format"
     ELSE IF ByteLen(components.Timestamp) # TimestampLen THEN "invalid timestamp length"
     ELSE IF components.Comment = <<>> THEN "comment cannot be empty"
     ELSE ""

\* a lookup that never finds the key
Lookup_Missing(m, k) == <<>>

\* m[k], the zero value when k is no key
Lookup(m, k) == IF k \in DOMAIN m THEN m[k] ELSE <<>>

\* an assignment that drops the other keys
Store_Alone(m, k, v) == [x \in {k} |-> v]

\* m[k] = v
Store(m, k, v) == [x \in DOMAIN m \cup {k} |-> IF x = k THEN v ELSE m[x]]

\* every tag taken as undefined
UndefinedTags_All(tags, validTags) == tags

\* the tags of a file that validTags does not hold, in order
UndefinedTags(tags, validTags) ==
  SelectSeq(tags, LAMBDA t : t \notin validTags)

RECURSIVE ValLoop(_, _, _, _, _)
\* the loop over the entries
ValLoop(entries, snap, extensions, validTags, st) ==
  IF entries = <<>> THEN st
  ELSE
    LET fileName == Head(entries)
        rest == Tail(entries)
        components == ParseFileName(fileName)
        hasTagDefinitions == Cardinality(validTags) > 0
        undefinedTags == UndefinedTags(components.Tags, validTags)
        counted == [st EXCEPT !.TotalFiles = @ + 1]
    IN IF snap[fileName].isDir
       THEN ValLoop(rest, snap, extensions, validTags, st)
       ELSE IF ~MatchesExtensions(fileName, extensions)
       THEN ValLoop(rest, snap, extensions, validTags, st)
       ELSE IF IsFormatted(fileName)
       THEN ValLoop(rest, snap, extensions, validTags,
              [counted EXCEPT
                 !.ValidFiles = @ + 1,
                 !.timestampMap =
                    Store(@, components.Timestamp,
                          Append(Lookup(@, components.Timestamp), fileName)),
                 !.HasUndefinedTags =
                    IF hasTagDefinitions /\ Len(components.Tags) > 0 /\ Len(undefinedTags) > 0
                    THEN TRUE ELSE @,
                 !.UndefinedTagFiles =
                    IF hasTagDefinitions /\ Len(components.Tags) > 0 /\ Len(undefinedTags) > 0
                    THEN Store(@, fileName, undefinedTags) ELSE @])
       ELSE ValLoop(rest, snap, extensions, validTags,
              [counted EXCEPT !.InvalidFiles = Append(@, fileName)])

\* the orders in which a Go map may hand out the keys of K
KeyOrders(K) == {p \in [1..Cardinality(K) -> K] : Range(p) = K}

\* closing lines that give the all-clear in spite of duplicates
Verdict_IgnoresDuplicates(result) ==
  IF Len(result.InvalidFiles) = 0 /\ ~result.HasUndefinedTags
  THEN {"All files are properly formatted"}
  ELSE (IF Len(result.InvalidFiles) > 0 THEN {"Some files have invalid format"} ELSE {})
       \cup (IF result.HasDuplicates THEN {"Some files have duplicate timestamps"} ELSE {})
       \cup (IF result.HasUndefinedTags THEN {"Some files have undefined tags"} ELSE {})

\* the closing lines of the report
Verdict(result) ==
  IF Len(result.InvalidFiles) = 0 /\ ~result.HasDuplicates /\ ~result.HasUndefinedTags
  THEN {"All files are properly formatted"}
  ELSE (IF Len(result.InvalidFiles) > 0 THEN {"Some files have invalid format"} ELSE {})
       \cup (IF result.HasDuplicates THEN {"Some files have duplicate timestamps"} ELSE {})
       \cup (IF result.HasUndefinedTags THEN {"Some files have undefined tags"} ELSE {})

\* the ValidateResult of a directory, the duplicate groups taken in the given order
ValidateResult(d, content, extensions, order) ==
  LET loaded == LoadTagsFromTOML(d, TomlName, content)
      tagDefs == IF loaded.err THEN <<>> ELSE loaded.defs
      validTags == {tagDefs[i].Key : i \in 1..Len(tagDefs)}
      st == ValLoop(ReadDir(d), d, extensions, validTags,
                    [TotalFiles |-> 0, ValidFiles |-> 0, InvalidFiles |-> <<>>,
                     timestampMap |-> <<>>, UndefinedTagFiles |-> <<>>,
                     HasUndefinedTags |-> FALSE])
  IN [TotalFiles |-> st.TotalFiles,
      ValidFiles |-> st.ValidFiles,
      InvalidFiles |-> st.InvalidFiles,
      DuplicateFiles |-> Flatten([i \in 1..Len(order) |-> st.timestampMap[order[i]]]),
      HasDuplicates |-> Len(order) > 0,
      UndefinedTagFiles |-> st.UndefinedTagFiles,
      HasUndefinedTags |-> st.HasUndefinedTags,
      timestampMap |-> st.timestampMap]

\* only groups of three and more taken as duplicates
DuplicateKeys_Three(d, content, extensions) ==
  LET tm == ValidateResult(d, content, extensions, <<>>).timestampMap
  IN {k \in DOMAIN tm : Len(tm[k]) > 2}

\* the keys of the duplicate groups of a directory
DuplicateKeys(d, content, extensions) ==
  LET tm == ValidateResult(d, content, extensions, <<>>).timestampMap
  IN {k \in DOMAIN tm : Len(tm[k]) > 1}

\* ValidateFileNames that reports on a directory that does not exist
ValidateFileNames_ReportsAbsent(present, extensions) ==
  /\ last.op = "none"
  /\ ops < MaxOps
  /\ ops' = ops + 1
  /\ \E order \in KeyOrders(DuplicateKeys(dir, tomlContent, extensions)) :
       LET result == ValidateResult(dir, tomlContent, extensions, order)
       IN last' = [op |-> "validate",
                   err |-> IF present THEN "" ELSE "directory does not exist",
                   extensions |-> extensions,
                   result |-> result, verdict |-> Verdict(result)]
  /\ UNCHANGED <<dir, tomlContent, clock, cin, cout, uniq, sess>>

\* ValidateFileNames(targetDir, opts)
ValidateFileNames(present, extensions) ==
  /\ last.op = "none"
  /\ ops < MaxOps
  /\ ops' = ops + 1
  /\ IF ~present
     THEN last' = [op |-> "validate", err |-> "directory does not exist",
                   extensions |-> extensions]
     ELSE \E order \in KeyOrders(DuplicateKeys(dir, tomlContent, extensions)) :
            LET result == ValidateResult(dir, tomlContent, extensions, order)
            IN last' = [op |-> "validate", err |-> "", extensions |-> extensions,
                        result |-> result, verdict |-> Verdict(result)]
  /\ UNCHANGED <<dir, tomlContent, clock, cin, cout, uniq, sess>>

\* an exit status that only an error of ValidateFileNames makes non-zero
ExitStatus_ErrorOnly(l) == IF l.err # "" THEN 1 ELSE 0

\* the exit status of `parakeet validate` whose ValidateFileNames gave l:
\* log.Fatal after an error, os.Exit(1) when InvalidFiles is not empty
ExitStatus(l) ==
  IF l.err # "" THEN 1
  ELSE IF Len(l.result.InvalidFiles) > 0 THEN 1
  ELSE 0

-----------------------------------------------------------------------------
(* The commands of the tool over one directory *)

\* one second passes
Tick ==
  /\ last.op = "none"
  /\ clock < MaxClock
  /\ clock' = clock + 1
  /\ UNCHANGED <<dir, tomlContent, ops, last, cin, cout, uniq, sess>>

\* the command has returned: nothing of one invocation outlives it
Exit ==
  /\ last.op # "none"
  /\ last' = [op |-> "none"]
  /\ UNCHANGED <<dir, tomlContent, clock, ops, cin, cout, uniq, sess>>

\* the renames the file system may refuse in one batch: none, or those of one file
Faults(d) == {{}} \cup {{n} : n \in {m \in DOMAIN d : ~d[m].isDir /\ ~IsFormatted(m)}}

\* the entries a directory may hold at the start
Pool ==
  << [name |-> <<"a">>, isDir |-> FALSE],
     [name |-> <<"b", ".", "a">>, isDir |-> FALSE],
     [name |-> <<"a", "_", "_", "a", "_", "_", "b">>, isDir |-> FALSE],
     [name |-> <<"T1", "-", "-", "a">>, isDir |-> FALSE],
     [name |-> <<"T1", "-", "-", "a", "_", "_", "b", "_", "a">>, isDir |-> FALSE],
     [name |-> <<"T2", "-", "-", "b", "_", "_", "b", ".", "a">>, isDir |-> FALSE],
     [name |-> <<"a", "-", "-">>, isDir |-> FALSE],
     [name |-> <<"a", ".", ".">>, isDir |-> FALSE],
     [name |-> TomlName, isDir |-> FALSE],
     [name |-> <<"b">>, isDir |-> TRUE],
     [name |-> <<"T1", "-", "-", "a", "_", "_", "b">>, isDir |-> TRUE] >>

MissingName == <<"b", "b">>

TagInputs == {<<"a">>, <<"b">>, <<"a", "_">>}

TagLists == Strings(TagInputs, MaxTags)

\* the tags.toml the working directory may hold: none, broken syntax, one tag
PromptRegistries ==
  { [present |-> FALSE, content |-> [syntaxOk |-> TRUE, Tag |-> <<>>]] }
    \cup {[present |-> TRUE, content |-> c] :
            c \in {r \in RegistryContents : ~r.syntaxOk \/ r.Tag # <<>>}}

\* no text entered
NoCustom == [err |-> TRUE, text |-> <<>>]

\* what the user may enter as a custom tag
CustomInputs ==
  {NoCustom} \cup {[err |-> FALSE, text |-> t] : t \in {<<"a">>, <<" ">>, <<"a", "_">>}}

\* the answers to one round that offers n options, the sentinel the last;
\* in the last round of a session the user enters no custom tag
Answers(n, r) ==
  {[err |-> TRUE, picks |-> {}, custom |-> NoCustom]}
    \cup UNION {{[err |-> FALSE, picks |-> P, custom |-> c] :
                   c \in IF n \in P /\ r > 1 THEN CustomInputs ELSE {NoCustom}} :
                P \in SUBSET (1..n)}

\* the answer leads to another round
Continues(a, n) ==
  /\ ~a.err
  /\ n \in a.picks
  /\ promptForCustomTag(a.custom).err = ""
  /\ promptForCustomTag(a.custom).tag # <<>>

RECURSIVE Sessions(_, _)
\* the answers of a user over at most r rounds, the first offering n options
Sessions(n, r) ==
  IF r = 0 THEN {<<>>}
  ELSE UNION {{<<a>> \o t : t \in IF Continues(a, n) THEN Sessions(n + 1, r - 1) ELSE {<<>>}} :
              a \in Answers(n, r)}

\* the sessions a user may hold over the tags of a file; none is held when
\* EditTags returns before it prompts
SessionsFor(filePath, opts, registry) ==
  IF \/ ~opts.Interactive
     \/ ~Exists(dir, filePath)
     \/ dir[filePath].isDir
     \/ ~ParseFileName(filePath).ok
  THEN {<<>>}
  ELSE LET loaded == LoadTagsFromTOML(IF registry.present
                                      THEN [n \in {TagsTomlName} |-> [id |-> 0, isDir |-> FALSE]]
                                      ELSE <<>>,
                                      TagsTomlName, registry.content)
           tagDefs == IF loaded.err THEN <<>> ELSE loaded.defs
       IN Sessions(Len(TagOptions(ParseFileName(filePath).Tags, tagDefs)), MaxRounds)

Init ==
  /\ \E S \in SUBSET (1..Len(Pool)) :
       /\ Cardinality(S) <= MaxFiles
       /\ dir = [n \in {Pool[i].name : i \in S} |->
                   LET i == CHOOSE j \in S : Pool[j].name = n
                   IN [id |-> i, isDir |-> Pool[i].isDir]]
  /\ tomlContent \in RegistryContents
  /\ (~Exists(dir, TomlName)) => tomlContent = [syntaxOk |-> TRUE, Tag |-> <<>>]
  /\ clock = 1
  /\ ops = 0
  /\ last = [op |-> "none"]
  /\ cin = <<>>
  /\ cout = CodecIdle
  /\ uniq = [pc |-> "none"]
  /\ sess = [pc |-> "none"]

Next ==
  \/ \E present \in BOOLEAN, opts \in RenameOptions, faults \in Faults(dir) :
       GenerateFileNames(present, opts, faults)
  \/ \E filePath \in DOMAIN dir \cup {MissingName}, tags \in TagLists :
       SetTags(filePath, tags)
  \/ /\ last.op = "none"
     /\ ops < MaxOps
     /\ \E filePath \in DOMAIN dir \cup {MissingName}, opts \in TagOptionsFlags,
             registry \in PromptRegistries :
          \E answers \in SessionsFor(filePath, opts, registry) :
            EditTags(filePath, opts, registry, answers)
  \/ \E present \in BOOLEAN, extensions \in ExtFilters :
       ValidateFileNames(present, extensions)
  \/ Tick
  \/ Exit

Spec == Init /\ [][Next]_vars

-----------------------------------------------------------------------------
(* Validation alone, over directories of up to MaxEntries entries *)

InitValidate ==
  /\ \E S \in SUBSET (1..Len(Pool)) :
       /\ Cardinality(S) <= MaxEntries
       /\ dir = [n \in {Pool[i].name : i \in S} |->
                   LET i == CHOOSE j \in S : Pool[j].name = n
                   IN [id |-> i, isDir |-> Pool[i].isDir]]
  /\ tomlContent \in RegistryContents
  /\ (~Exists(dir, TomlName)) => tomlContent = [syntaxOk |-> TRUE, Tag |-> <<>>]
  /\ clock = 1
  /\ ops = 0
  /\ last = [op |-> "none"]
  /\ cin = <<>>
  /\ cout = CodecIdle
  /\ uniq = [pc |-> "none"]
  /\ sess = [pc |-> "none"]

NextValidate ==
  \/ \E present \in BOOLEAN, extensions \in ExtFilters :
       ValidateFileNames(present, extensions)
  \/ Exit

SpecValidate == InitValidate /\ [][NextValidate]_vars

-----------------------------------------------------------------------------
(* One interactive edit of the tags of a file, the answers of the user kept *)

\* one regular file of the pool, the choices of the caller and the answers
\* the user will give
InitEdit ==
  /\ \E i \in {j \in 1..Len(Pool) : ~Pool[j].isDir /\ Pool[j].name # TomlName} :
       dir = [n \in {Pool[i].name} |-> [id |-> i, isDir |-> FALSE]]
  /\ \E opts \in TagOptionsFlags, registry \in PromptRegistries :
     \E filePath \in DOMAIN dir :
     \E answers \in SessionsFor(filePath, opts, registry) :
       cin = [file |-> filePath, opts |-> opts, registry |-> registry, answers |-> answers]
  /\ tomlContent = [syntaxOk |-> TRUE, Tag |-> <<>>]
  /\ clock = 1
  /\ ops = 0
  /\ last = [op |-> "none"]
  /\ cout = CodecIdle
  /\ uniq = [pc |-> "none"]
  /\ sess = [pc |-> "none"]

\* parakeet tag <file_path>
EditChosen == EditTags(cin.file, cin.opts, cin.registry, cin.answers)

NextEdit == EditChosen

SpecEdit == InitEdit /\ [][NextEdit]_vars

-----------------------------------------------------------------------------
(* Batch generation alone, over directories of up to MaxEntries entries *)

\* the entries of Pool and a file whose name ends in '.' after a dotted base
BatchPool == Pool \o << [name |-> <<"b", ".", "a", ".">>, isDir |-> FALSE] >>

InitBatch ==
  /\ \E S \in SUBSET (1..Len(BatchPool)) :
       /\ Cardinality(S) <= MaxEntries
       /\ dir = [n \in {BatchPool[i].name : i \in S} |->
                   LET i == CHOOSE j \in S : BatchPool[j].name = n
                   IN [id |-> i, isDir |-> BatchPool[i].isDir]]
  /\ tomlContent = [syntaxOk |-> TRUE, Tag |-> <<>>]
  /\ clock = 1
  /\ ops = 0
  /\ last = [op |-> "none"]
  /\ cin = <<>>
  /\ cout = CodecIdle
  /\ uniq = [pc |-> "none"]
  /\ sess = [pc |-> "none"]

NextBatch ==
  \/ \E present \in BOOLEAN, opts \in RenameOptions, faults \in Faults(dir) :
       GenerateFileNames(present, opts, faults)
  \/ Tick
  \/ Exit

SpecBatch == InitBatch /\ [][NextBatch]_vars

-----------------------------------------------------------------------------
(* SetTags applied again and again with one tag list to one file *)

RetagAlphabet == {"T1", "-", "_", ".", "a"}

\* the tag lists of a retagging: those of TagLists and a list of one empty tag
RetagLists == TagLists \cup {<<<<>>>>}

\* one well-formed file and the tag list every call will pass
InitRetag ==
  /\ \E f \in {x \in Strings(RetagAlphabet, MaxLen) : IsFormatted(x)}, T \in RetagLists :
       /\ dir = [n \in {f} |-> [id |-> 1, isDir |-> FALSE]]
       /\ cin = [file |-> f, tags |-> T]
  /\ tomlContent = [syntaxOk |-> TRUE, Tag |-> <<>>]
  /\ clock = 1
  /\ ops = 0
  /\ last = [op |-> "none"]
  /\ cout = CodecIdle
  /\ uniq = [pc |-> "none"]
  /\ sess = [pc |-> "none"]

\* SetTags of the file, whatever its name is by now, with the tags of cin
SetChosen == \E filePath \in DOMAIN dir : SetTags(filePath, cin.tags)

NextRetag == SetChosen \/ Exit

SpecRetag == InitRetag /\ [][NextRetag]_vars

-----------------------------------------------------------------------------
(* tag.go: promptForTags, one step per prompt *)

\* the tags a file may carry when its session starts
SessionTags ==
  {<<>>, <<<<"a">>>>, <<<<"b">>>>, <<<<"b">>, <<"a">>>>, <<<<"b">>, <<"b">>>>}

\* promptForTags up to its for loop: the first options and pre-selection
InitSession ==
  /\ \E currentTags \in SessionTags, registry \in PromptRegistries :
       LET loaded == LoadTagsFromTOML(IF registry.present
                                      THEN [n \in {TagsTomlName} |-> [id |-> 0, isDir |-> FALSE]]
                                      ELSE <<>>,
                                      TagsTomlName, registry.content)
           tagDefs == IF loaded.err THEN <<>> ELSE loaded.defs
           tagDescMap == TagDescMap(tagDefs)
       IN sess = [pc |-> "select", round |-> 1, currentTags |-> currentTags,
                  tagDescMap |-> tagDescMap,
                  tagOptions |-> TagOptions(currentTags, tagDefs),
                  defaultSelection |-> Displays(tagDescMap, currentTags),
                  selected |-> <<>>, addCustom |-> FALSE, finalTags |-> <<>>,
                  customTag |-> <<>>, tags |-> <<>>, err |-> ""]
  /\ dir = <<>>
  /\ tomlContent = <<>>
  /\ clock = 1
  /\ ops = 0
  /\ last = [op |-> "none"]
  /\ cin = <<>>
  /\ cout = CodecIdle
  /\ uniq = [pc |-> "none"]

\* survey.AskOne of the MultiSelect and the loop over the selection: the
\* user interrupts, or confirms the options of picks
AskSelect(interrupt, picks) ==
  /\ sess.pc = "select"
  /\ IF interrupt
     THEN sess' = [sess EXCEPT !.pc = "returned", !.tags = <<>>, !.err = "interrupt"]
     ELSE LET selected == Checked(sess.tagOptions, picks, 1)
              addCustom == \E i \in 1..Len(selected) : selected[i] = SentinelOption
              finalTags == FinalTags(selected)
          IN IF addCustom
             THEN sess' = [sess EXCEPT !.pc = "custom", !.selected = selected,
                                       !.addCustom = TRUE, !.finalTags = finalTags]
             ELSE sess' = [sess EXCEPT !.pc = "returned", !.selected = selected,
                                       !.addCustom = FALSE, !.finalTags = finalTags,
                                       !.tags = SortStrings(finalTags), !.err = ""]
  /\ UNCHANGED <<dir, tomlContent, clock, ops, last, cin, cout, uniq>>

\* the block under `if addCustom`: promptForCustomTag and what follows it
AskCustom(input) ==
  /\ sess.pc = "custom"
  /\ LET custom == promptForCustomTag(input)
     IN IF custom.err # ""
        THEN sess' = [sess EXCEPT !.pc = "returned", !.tags = <<>>, !.err = custom.err]
        ELSE IF custom.tag # <<>>
        THEN /\ sess.round < MaxRounds
             /\ sess' = [sess EXCEPT
                           !.pc = "select",
                           !.round = @ + 1,
                           !.customTag = custom.tag,
                           !.finalTags = Append(@, custom.tag),
                           !.tagOptions = <<formatDisplay(sess.tagDescMap, custom.tag)>> \o @,
                           !.defaultSelection =
                              Displays(sess.tagDescMap, Append(sess.finalTags, custom.tag))]
        ELSE sess' = [sess EXCEPT !.pc = "returned", !.customTag = custom.tag,
                                  !.tags = SortStrings(sess.finalTags), !.err = ""]
  /\ UNCHANGED <<dir, tomlContent, clock, ops, last, cin, cout, uniq>>

NextSession ==
  \/ \E interrupt \in BOOLEAN, picks \in SUBSET (1..Len(sess.tagOptions)) :
       AskSelect(interrupt, picks)
  \/ \E input \in CustomInputs \cup {[err |-> FALSE, text |-> <<"b">>]} :
       AskCustom(input)

SpecSession == InitSession /\ [][NextSession]_vars

-----------------------------------------------------------------------------
(* format.go: GenerateUniqueTimestamp, one step per evaluation of the map *)

\* time.Parse("20060102T150405", timestamp): the second the text names
ParseTime(timestamp) == CHOOSE n \in 1..MaxSecond : TimestampOf(n) = timestamp[1]

\* t.Format("20060102T150405")
FormatTime(t) == <<TimestampOf(t)>>

\* the keys an existingTimestamps map may hold at the start
ExistingKeys == {FormatTime(n) : n \in 1..(MaxClock + MaxExisting)} \cup {<<"a">>}

InitUnique ==
  /\ \E S \in SUBSET ExistingKeys :
       /\ Cardinality(S) <= MaxExisting
       /\ uniq = [pc |-> "idle", existing |-> S, now |-> <<>>, t |-> 0,
                  advances |-> 0, result |-> <<>>, returned |-> <<>>]
  /\ dir = <<>>
  /\ tomlContent = <<>>
  /\ clock = 1
  /\ ops = 0
  /\ last = [op |-> "none"]
  /\ cin = <<>>
  /\ cout = CodecIdle
  /\ sess = [pc |-> "none"]

\* GenerateUniqueTimestamp that returns the current second without a look
\* at the map
UniqueCall_NoLookup ==
  /\ uniq.pc = "idle"
  /\ Len(uniq.returned) < MaxRequests
  /\ uniq' = [uniq EXCEPT !.pc = "done", !.now = GenerateTimestamp, !.advances = 0,
                          !.result = GenerateTimestamp]
  /\ UNCHANGED <<dir, tomlContent, clock, ops, last, cin, cout, sess>>

\* GenerateUniqueTimestamp(existingTimestamps) up to the for loop
UniqueCall ==
  /\ uniq.pc = "idle"
  /\ Len(uniq.returned) < MaxRequests
  /\ LET timestamp == GenerateTimestamp
     IN IF timestamp \notin uniq.existing
        THEN uniq' = [uniq EXCEPT !.pc = "done", !.now = timestamp, !.advances = 0,
                                  !.result = timestamp]
        ELSE uniq' = [uniq EXCEPT !.pc = "loop", !.now = timestamp, !.advances = 0,
                                  !.t = ParseTime(timestamp)]
  /\ UNCHANGED <<dir, tomlContent, clock, ops, last, cin, cout, sess>>

\* a for loop that steps two seconds at a time
UniqueAdvance_TwoSeconds ==
  /\ uniq.pc = "loop"
  /\ uniq.t + 1 < MaxSecond
  /\ LET t == uniq.t + 2
         newTimestamp == FormatTime(t)
     IN IF newTimestamp \notin uniq.existing
        THEN uniq' = [uniq EXCEPT !.pc = "done", !.t = t, !.advances = @ + 1,
                                  !.result = newTimestamp]
        ELSE uniq' = [uniq EXCEPT !.t = t, !.advances = @ + 1]
  /\ UNCHANGED <<dir, tomlContent, clock, ops, last, cin, cout, sess>>

\* a for loop that returns the first identifier the map holds
UniqueAdvance_WantsTaken ==
  /\ uniq.pc = "loop"
  /\ uniq.t < MaxSecond
  /\ LET t == uniq.t + 1
         newTimestamp == FormatTime(t)
     IN IF newTimestamp \in uniq.existing
        THEN uniq' = [uniq EXCEPT !.pc = "done", !.t = t, !.advances = @ + 1,
                                  !.result = newTimestamp]
        ELSE uniq' = [uniq EXCEPT !.t = t, !.advances = @ + 1]
  /\ UNCHANGED <<dir, tomlContent, clock, ops, last, cin, cout, sess>>

\* one turn of the for loop
UniqueAdvance ==
  /\ uniq.pc = "loop"
  /\ uniq.t < MaxSecond
  /\ LET t == uniq.t + 1
         newTimestamp == FormatTime(t)
     IN IF newTimestamp \notin uniq.existing
        THEN uniq' = [uniq EXCEPT !.pc = "done", !.t = t, !.advances = @ + 1,
                                  !.result = newTimestamp]
        ELSE uniq' = [uniq EXCEPT !.t = t, !.advances = @ + 1]
  /\ UNCHANGED <<dir, tomlContent, clock, ops, last, cin, cout, sess>>

\* the caller records the identifier it was given before it asks for the next
UniqueRecord ==
  /\ uniq.pc = "done"
  /\ uniq' = [uniq EXCEPT !.pc = "idle",
                          !.existing = @ \cup {uniq.result},
                          !.returned = Append(@, uniq.result)]
  /\ UNCHANGED <<dir, tomlContent, clock, ops, last, cin, cout, sess>>

NextUnique == UniqueCall \/ UniqueAdvance \/ UniqueRecord \/ Tick

SpecUnique == InitUnique /\ [][NextUnique]_vars

\* the for loop is running code: a turn that can be taken is taken
SpecUniqueFair == SpecUnique /\ WF_vars(UniqueAdvance)

-----------------------------------------------------------------------------
(* Properties of the codec, stated over positions in the name *)

Contains(s, sep) == \E i \in 1..Len(s) : OccursAt(s, sep, i)

HasChar(s, c) == \E i \in 1..Len(s) : s[i] = c

\* the name without the text from its last '.'
Stem(name) ==
  IF HasChar(name, ".")
  THEN Upto(name, CHOOSE i \in 1..Len(name) :
                    name[i] = "." /\ \A j \in (i + 1)..Len(name) : name[j] # ".")
  ELSE name

\* number of '_' that end right before position i
RunBefore(s, i) ==
  Cardinality({k \in 1..(i - 1) : \A j \in k..(i - 1) : s[j] = "_"})

\* the positions where a "__" cut starts, taken left to right without overlap
Cuts2(s) == {i \in 1..(Len(s) - 1) :
               s[i] = "_" /\ s[i + 1] = "_" /\ RunBefore(s, i) % 2 = 0}

\* the text before the first "__" of s
FirstGroup(s) ==
  IF Cuts2(s) = {} THEN s
  ELSE Upto(s, CHOOSE i \in Cuts2(s) : \A j \in Cuts2(s) : i <= j)

\* the text after the first "__" of s
AfterFirstGroup(s) ==
  From(s, (CHOOSE i \in Cuts2(s) : \A j \in Cuts2(s) : i <= j) + 2)

\* the '_' of s that separate tags: every '_' outside a cut is one separator,
\* every cut is one separator
RECURSIVE TagPieces(_, _, _)
TagPieces(s, i, cur) ==
  IF i > Len(s) THEN <<cur>>
  ELSE IF i \in Cuts2(s) THEN <<cur>> \o TagPieces(s, i + 2, <<>>)
  ELSE IF s[i] = "_" THEN <<cur>> \o TagPieces(s, i + 1, <<>>)
  ELSE TagPieces(s, i + 1, Append(cur, s[i]))

\* C8: ParseFileName(name) fails exactly when the text before the first "__"
\* of the name without its extension holds no "--"; when it succeeds the
\* identifier is the text before the first "--" and the comment the text
\* after it, up to the first "__"; IsFormatted agrees with ParseFileName.
C8_ParseFailsIffNoDash ==
  cout.op = "decode" =>
    LET g == FirstGroup(Stem(cout.name))
    IN /\ cout.parsed.ok <=> Contains(g, Dash)
       /\ IsFormatted(cout.name) <=> cout.parsed.ok
       /\ (cout.name = <<>>) => ~cout.parsed.ok
       /\ cout.parsed.ok =>
            /\ ~Contains(cout.parsed.Timestamp, Dash)
            /\ g = cout.parsed.Timestamp \o Dash \o cout.parsed.Comment

\* a name that holds "--", but not before its first "__": decoding fails
C8_Witness ==
  /\ cout.op = "decode"
  /\ ~cout.parsed.ok
  /\ Contains(cout.name, Dash)
  /\ Contains(cout.name, Under)

ExampleName ==
  <<"T1", "-", "-", "a", "_", "_", "a", "_", "b", "_", "_", "a", "a", "_", "b", "b",
    ".", "a">>

\* C10: the decoded tag list is, in order, the '_'-separated pieces of all
\* the "__"-separated groups after the first; no "__" gives no tags; the
\* comment stops at the first "__".
C10_TagGroupsFlattened ==
  /\ ParseFileName(ExampleName) =
       Components(<<"T1">>, <<"a">>, <<<<"a">>, <<"b">>, <<"a", "a">>, <<"b", "b">>>>, <<"a">>)
  /\ (cout.op = "decode" /\ cout.parsed.ok) =>
       LET stem == Stem(cout.name)
       IN /\ ~Contains(stem, Under) => cout.parsed.Tags = <<>>
          /\ Contains(stem, Under) =>
               cout.parsed.Tags = TagPieces(AfterFirstGroup(stem), 1, <<>>)
          /\ ~Contains(cout.parsed.Comment, Under)
          /\ \A i \in 1..Len(cout.parsed.Tags) : ~HasChar(cout.parsed.Tags[i], "_")

\* a decoded name with two tag groups
C10_Witness ==
  /\ cout.op = "decode"
  /\ cout.parsed.ok
  /\ Cardinality(Cuts2(Stem(cout.name))) = 2
  /\ Len(cout.parsed.Tags) = 2

\* the characters the tag-character contract reserves
HasReserved(s) == HasChar(s, "/") \/ HasChar(s, "_") \/ HasChar(s, "-") \/ HasChar(s, ".")

\* the decoded Record equals r in identifier, comment, extension and tag set
SameRecord(r, parsed) ==
  /\ parsed.ok
  /\ parsed.Timestamp = r.Timestamp
  /\ parsed.Comment = r.Comment
  /\ parsed.Extension = r.Extension
  /\ Range(parsed.Tags) = Range(r.Tags)

\* comment free of "--" and "__", tags free of the reserved characters
DelimiterFree(r) ==
  /\ ~Contains(r.Comment, Dash)
  /\ ~Contains(r.Comment, Under)
  /\ \A i \in 1..Len(r.Tags) : ~HasReserved(r.Tags[i])

\* C1 as stated: every Record whose comment and tags are free of the
\* structural delimiters survives encode then decode.
C1_RoundTripAsStated ==
  (cout.op = "encode" /\ DelimiterFree(cout.rec)) => SameRecord(cout.rec, cout.parsed)

\* what the round trip needs besides: no '.' in the comment or the extension,
\* no '_' at the end of the comment, no empty tag
RoundTripSafe(r) ==
  /\ DelimiterFree(r)
  /\ ~HasChar(r.Comment, ".")
  /\ ~HasChar(r.Extension, ".")
  /\ (r.Comment = <<>> \/ r.Comment[Len(r.Comment)] # "_")
  /\ \A i \in 1..Len(r.Tags) : r.Tags[i] # <<>>

\* C1 amended: a Record with a canonical identifier, a comment free of "--",
\* "__" and '.' that does not end in '_', non-empty tags free of the reserved
\* characters and an extension free of '.' survives encode then decode in
\* identifier, comment, extension and tag set.
C1_RoundTrip ==
  (cout.op = "encode" /\ RoundTripSafe(cout.rec)) => SameRecord(cout.rec, cout.parsed)

\* a Record with a comment, two tags and an extension was encoded and decoded
C1_Witness ==
  /\ cout.op = "encode"
  /\ RoundTripSafe(cout.rec)
  /\ cout.rec.Comment # <<>>
  /\ Len(cout.rec.Tags) = 1
  /\ cout.rec.Extension # <<>>
  /\ cout.name = <<"T1", "-", "-", "a", "_", "_", "a", ".", "a">>

-----------------------------------------------------------------------------
(* Properties of the commands *)

\* the text after the last '.' of a name, empty when it has none
AfterLastDot(name) ==
  IF HasChar(name, ".") THEN From(name, Len(Stem(name)) + 2) ELSE <<>>

\* the two texts differ at most in the case of letters
SameLetters(s, t) ==
  /\ Len(s) = Len(t)
  /\ \A i \in 1..Len(s) :
       s[i] = t[i] \/ {s[i], t[i]} = {"a", "A"}

\* the regular files of a directory
Files(d) == {n \in DOMAIN d : ~d[n].isDir}

\* the ids of the entries of a directory
Ids(d) == {d[n].id : n \in DOMAIN d}

\* the names the last command gave to files
Renamed ==
  IF last.op = "generate" THEN DOMAIN dir \ DOMAIN last.before
  ELSE IF last.op \in {"settags", "edittags"} /\ last.changed /\ last.err = ""
  THEN {last.newName}
  ELSE {}

\* the name a renamed file had before the last command
OldNameOf(x) == CHOOSE n \in DOMAIN last.before : last.before[n].id = dir[x].id

\* the name without its extension, as GenerateFileNames cuts it
BaseOf(name) == TrimSuffix(name, Ext(name))

C2_Covered(x) ==
  IF last.op = "generate"
  THEN LET base == BaseOf(OldNameOf(x))
       IN /\ Cardinality(Cuts2(base)) <= 1
          /\ (base = <<>> \/ base[Len(base)] # ".")
  ELSE \A i \in 1..Len(last.tags) : last.tags[i] # <<>> /\ ~HasReserved(last.tags[i])

C3_BatchIdentifiersDistinct ==
  (last.op = "generate" /\ last.err = "") =>
    \A x \in Renamed : \A y \in Files(dir) \ {x} :
      IsFormatted(y) => ParseFileName(y).Timestamp # ParseFileName(x).Timestamp

\* C4: a rename whose target name exists as another entry reports an error
\* and renames nothing; no file is ever replaced.
C4_NoOverwrite ==
  /\ last.op \in {"generate", "settags", "edittags"} => Ids(last.before) \subseteq Ids(dir)
  /\ (last.op \in {"settags", "edittags"} /\ last.changed /\ last.newName # last.file
        /\ Exists(last.before, last.newName)) =>
       (last.err # "" /\ dir = last.before)

\* C5: SetTags renames exactly when the new tags, as a set, differ from the
\* tags of the name, as a set.
C5_ChangedIffSetsDiffer ==
  (last.op = "settags" /\ last.err = "") =>
    (last.changed <=> Range(last.tags) # Range(ParseFileName(last.file).Tags))

\* the tag segment of a name: the text after its first "__", extension aside
TagSegment(name) ==
  IF Cuts2(Stem(name)) = {} THEN <<>> ELSE AfterFirstGroup(Stem(name))

\* C6: the tag segment of a name SetTags wrote lists the new tags ascending,
\* each once.
C6_SegmentSortedNoRepeat ==
  (last.op = "settags" /\ last.changed /\ last.err = "") =>
    TagSegment(last.newName) = Join(SortSet(Range(last.tags)), TagSep)

\* C7: SetTags with the tags decoded from the name of a well-formed file
\* leaves the directory as it is and reports no change.
C7_SetOwnTagsNoChange ==
  (/\ last.op = "settags"
   /\ last.file \in Files(last.before)
   /\ IsFormatted(last.file)
   /\ last.tags = ParseFileName(last.file).Tags) =>
    (~last.changed /\ last.err = "" /\ dir = last.before)

\* SetTags was given the unsorted tags a name decodes to
C7_Witness ==
  /\ last.op = "settags"
  /\ last.file = <<"T1", "-", "-", "a", "_", "_", "b", "_", "a">>
  /\ last.tags = <<<<"b">>, <<"a">>>>
  /\ ~last.changed
  /\ Exists(dir, last.file)

\* C9: a name a validation pass counts as valid decodes to an identifier of
\* 15 bytes and a non-empty comment.
C9_ValidMeetsDataModel ==
  (last.op = "validate" /\ last.err = "") =>
    \A k \in DOMAIN last.result.timestampMap :
      \A i \in 1..Len(last.result.timestampMap[k]) :
        LET c == ParseFileName(last.result.timestampMap[k][i])
        IN ByteLen(c.Timestamp) = TimestampLen /\ c.Comment # <<>>

\* C22: validation and batch generation of a directory that does not exist
\* end with 'directory does not exist': validation returns no report, the
\* batch reads no clock, visits no entry, writes no line and renames nothing.
C22_MissingDirectoryIsFatal ==
  /\ (last.op = "validate" /\ last.err # "") =>
       /\ last.err = "directory does not exist"
       /\ DOMAIN last = {"op", "err", "extensions"}
  /\ (last.op = "generate" /\ last.err # "") =>
       /\ last.err = "directory does not exist"
       /\ last.timestamp = <<>>
       /\ last.processed = 0
       /\ last.skipped = 0
       /\ last.out = <<>>
       /\ dir = last.before

\* a batch was asked of a missing directory while the model's directory
\* held a file the batch would have renamed
C22_Witness ==
  /\ last.op = "generate"
  /\ last.err = "directory does not exist"
  /\ \E n \in Files(dir) : ~IsFormatted(n)

\* the lines of the last batch that report a failed rename
RenameErrors == {i \in 1..Len(last.out) : last.out[i].msg = "Error renaming"}

\* C20: a batch in which a rename failed returns no error; the entry that
\* failed keeps its name and is not counted as processed, and every other
\* regular file is still visited, in the order of the listing.
C20_FailureDoesNotStopBatch ==
  (last.op = "generate" /\ RenameErrors # {}) =>
    /\ last.err = ""
    /\ \A i \in RenameErrors :
         /\ last.out[i].old \in DOMAIN dir
         /\ dir[last.out[i].old] = last.before[last.out[i].old]
    /\ last.processed = Cardinality(Renamed)
    /\ last.processed + last.skipped + Cardinality(RenameErrors)
         = Cardinality({n \in Files(last.before) :
                          MatchesExtensions(n, last.opts.Extensions)})
    /\ \A i, j \in 1..Len(last.out) :
         i < j => (last.out[i].old # last.out[j].old /\ Less(last.out[i].old, last.out[j].old))

\* the rename of one file failed and a file later in the listing was renamed
C20_Witness ==
  /\ last.op = "generate"
  /\ last.processed = 1
  /\ \E i \in RenameErrors : \E x \in Renamed : Less(last.out[i].old, OldNameOf(x))

\* the entries of the directory the last batch was to rename: regular files
\* inside the extension filter
InScope == {n \in Files(last.before) :
              \/ last.opts.Extensions = <<>>
              \/ \E i \in 1..Len(last.opts.Extensions) :
                   SameLetters(AfterLastDot(n), last.opts.Extensions[i])}

\* the lines of the last batch that warn of an existing target
Collisions ==
  {i \in 1..Len(last.out) : last.out[i].msg = "Warning: target file already exists"}

NameOfId(id) == CHOOSE x \in DOMAIN dir : dir[x].id = id

\* a batch that renamed (no dry run), in which no rename failed and no target
\* existed
CleanBatch ==
  /\ last.op = "generate"
  /\ last.err = ""
  /\ ~last.opts.DryRun
  /\ RenameErrors = {}
  /\ Collisions = {}

\* C28 as stated: after a batch in which no rename fails and no target name
\* collides, every regular file inside the filter has a well-formed name
\* whose decoded extension is the extension of its old name, and the
\* directory holds as many files as before.
C28_BatchOutcomeAsStated ==
  CleanBatch =>
    /\ \A n \in InScope :
         /\ ParseFileName(NameOfId(last.before[n].id)).ok
         /\ ParseFileName(NameOfId(last.before[n].id)).Extension = AfterLastDot(n)
    /\ Cardinality(Files(dir)) = Cardinality(Files(last.before))

\* C28: after a batch in which no rename fails and no target name collides,
\* every regular file inside the filter has a well-formed name, its decoded
\* extension is the extension of its old name unless the old name ends in
\* '.', and the directory holds the files it held before.
C28_BatchOutcome ==
  CleanBatch =>
    /\ \A n \in InScope :
         /\ ParseFileName(NameOfId(last.before[n].id)).ok
         /\ n[Len(n)] # "." =>
              ParseFileName(NameOfId(last.before[n].id)).Extension = AfterLastDot(n)
    /\ Cardinality(Files(dir)) = Cardinality(Files(last.before))
    /\ Ids(dir) = Ids(last.before)

\* a batch with a filter renamed a file with an extension, next to a
\* well-formed file inside the filter and a file outside it
C28_Witness ==
  /\ CleanBatch
  /\ last.opts.Extensions # <<>>
  /\ last.processed = 1
  /\ last.skipped = 1
  /\ Files(last.before) \ InScope # {}
  /\ \A n \in InScope : AfterLastDot(n) # <<>>

-----------------------------------------------------------------------------
(* Properties of GenerateUniqueTimestamp *)

\* the seconds from a up to b whose identifier existing holds
TakenBetween(existing, a, b) == {n \in a..b : FormatTime(n) \in existing}

\* C11: a finished GenerateUniqueTimestamp returns the identifier of the
\* current second when existing does not hold it, and otherwise the first
\* identifier after it, second by second, that existing does not hold; the
\* returned identifier is never a member of existing.
C11_UniqueIsFirstFree ==
  uniq.pc = "done" =>
    LET now == ParseTime(uniq.now)
        got == ParseTime(uniq.result)
    IN /\ uniq.result \notin uniq.existing
       /\ uniq.result = FormatTime(got)
       /\ uniq.now \notin uniq.existing => uniq.result = uniq.now
       /\ uniq.now \in uniq.existing =>
            /\ got > now
            /\ TakenBetween(uniq.existing, now, got - 1) = now..(got - 1)

\* the current second and the next were taken: the third is returned
C11_Witness ==
  /\ uniq.pc = "done"
  /\ uniq.now \in uniq.existing
  /\ uniq.advances = 2
  /\ uniq.returned = <<>>

\* C12: the identifiers returned one after another, each recorded in
\* existing before the next request, are pairwise distinct.
C12_SuccessiveDistinct ==
  /\ uniq.pc \in {"idle", "loop", "done"} =>
       \A i, j \in 1..Len(uniq.returned) : i # j => uniq.returned[i] # uniq.returned[j]
  /\ uniq.pc = "done" =>
       \A i \in 1..Len(uniq.returned) : uniq.returned[i] # uniq.result

\* three identifiers were returned within one second of the clock
C12_Witness ==
  /\ uniq.pc = "idle"
  /\ Len(uniq.returned) = MaxRequests
  /\ clock = 1

\* the for loop has advanced at most once per key of the map
AdvancesBounded ==
  uniq.pc \in {"loop", "done"} => uniq.advances <= Cardinality(uniq.existing)

\* C30: GenerateUniqueTimestamp over a finite map terminates, after at most
\* as many one-second advances as the map has keys.
C30_TerminatesWithinExisting ==
  /\ []AdvancesBounded
  /\ (uniq.pc = "loop") ~> (uniq.pc = "done")

\* a call that needed as many advances as the map has keys
C30_Witness ==
  /\ uniq.pc = "done"
  /\ uniq.advances = Cardinality(uniq.existing)
  /\ uniq.advances >= 2

-----------------------------------------------------------------------------
(* Properties of a validation report *)

\* a report was returned
Reported == last.op = "validate" /\ last.err = ""

\* the entry passes the extension filter
Passes(name, extensions) ==
  \/ extensions = <<>>
  \/ \E i \in 1..Len(extensions) : SameLetters(AfterLastDot(name), extensions[i])

\* the regular files the report is about
Scanned == {n \in Files(dir) : Passes(n, last.extensions)}

WellFormed == {n \in Scanned : ParseFileName(n).ok}

Malformed == Scanned \ WellFormed

\* the well-formed entries that share their identifier with another one
Shared ==
  {n \in WellFormed :
     \E o \in WellFormed \ {n} : ParseFileName(o).Timestamp = ParseFileName(n).Timestamp}

\* the keys of the registry the pass loaded: none when the directory has no
\* tag.toml or its syntax is broken
RegistryKeys ==
  IF Exists(dir, TomlName) /\ tomlContent.syntaxOk
  THEN {tomlContent.Tag[i].Key : i \in 1..Len(tomlContent.Tag)}
  ELSE {}

\* the well-formed entries with a tag the registry lacks
WithUndefined ==
  {n \in WellFormed :
     \E i \in 1..Len(ParseFileName(n).Tags) : ParseFileName(n).Tags[i] \notin RegistryKeys}

RECURSIVE SumLens(_, _)
\* the number of entries of a multimap over the keys K
SumLens(m, K) ==
  IF K = {} THEN 0
  ELSE LET k == CHOOSE x \in K : TRUE
       IN Len(m[k]) + SumLens(m, K \ {k})

\* how often name is recorded in the multimap
Recorded(m, name) ==
  Cardinality({<<k, i>> \in UNION {{<<k, i>> : i \in 1..Len(m[k])} : k \in DOMAIN m} :
                 m[k][i] = name})

\* C13: in every report TotalFiles = ValidFiles + len(InvalidFiles), and
\* ValidFiles is the number of entries of the identifier multimap, which
\* holds every valid entry once.
C13_CountsAddUp ==
  Reported =>
    LET r == last.result
    IN /\ r.TotalFiles = r.ValidFiles + Len(r.InvalidFiles)
       /\ r.ValidFiles = SumLens(r.timestampMap, DOMAIN r.timestampMap)
       /\ \A n \in WellFormed : Recorded(r.timestampMap, n) = 1
       /\ r.TotalFiles = Cardinality(Scanned)

\* a report over a malformed entry and two entries of one identifier
C13_Witness ==
  /\ Reported
  /\ last.result.ValidFiles = 2
  /\ Len(last.result.InvalidFiles) = 1
  /\ \E k \in DOMAIN last.result.timestampMap : Len(last.result.timestampMap[k]) = 2

\* C14: the entries reported as duplicates are the well-formed,
\* filter-matching entries that share their identifier with another such
\* entry, each once, the first of a group included; they count as valid.
C14_DuplicatesAreShared ==
  Reported =>
    LET r == last.result
    IN /\ Range(r.DuplicateFiles) = Shared
       /\ Len(r.DuplicateFiles) = Cardinality(Shared)
       /\ r.HasDuplicates <=> Shared # {}
       /\ r.ValidFiles = Cardinality(WellFormed)

\* two entries of one identifier and one of another: the two are reported
C14_Witness ==
  /\ Reported
  /\ Len(last.result.DuplicateFiles) = 2
  /\ last.result.ValidFiles = 3

\* C15: with no registry or an empty one no entry has undefined tags; with
\* a registry that holds a key, the undefined-tag map holds the well-formed
\* entries with a tag the registry lacks, each with just those tags.
C15_RegistryGating ==
  Reported =>
    LET r == last.result
    IN /\ RegistryKeys = {} =>
            (r.UndefinedTagFiles = <<>> /\ ~r.HasUndefinedTags)
       /\ RegistryKeys # {} =>
            /\ DOMAIN r.UndefinedTagFiles = WithUndefined
            /\ r.HasUndefinedTags <=> WithUndefined # {}
            /\ \A n \in WithUndefined :
                 r.UndefinedTagFiles[n] =
                   SelectSeq(ParseFileName(n).Tags, LAMBDA t : t \notin RegistryKeys)

\* an entry with a defined and an undefined tag under a registry
C15_Witness ==
  /\ Reported
  /\ \E n \in DOMAIN last.result.UndefinedTagFiles :
       Len(last.result.UndefinedTagFiles[n]) < Len(ParseFileName(n).Tags)

\* C16: the three findings do not hide one another: whatever else the
\* report holds, its malformed list is the malformed entries, its duplicate
\* list the entries that share an identifier, and its undefined-tag map the
\* entries with an undefined tag.
C16_FindingsIndependent ==
  Reported =>
    LET r == last.result
    IN /\ Range(r.InvalidFiles) = Malformed
       /\ Range(r.DuplicateFiles) = Shared
       /\ DOMAIN r.UndefinedTagFiles =
            (IF RegistryKeys = {} THEN {} ELSE WithUndefined)

\* one report with a malformed entry, a duplicate group and an undefined
\* tag on a member of that group
C16_Witness ==
  /\ Reported
  /\ Len(last.result.InvalidFiles) > 0
  /\ last.result.HasDuplicates
  /\ \E n \in Range(last.result.DuplicateFiles) : n \in DOMAIN last.result.UndefinedTagFiles

\* C17: an entry passes the extension filter exactly when the list is empty
\* or the text after its last '.' is an element of the list, case aside; an
\* entry that does not pass is in none of the figures of the report.
C17_ExtensionFilter ==
  /\ \A n \in DOMAIN dir : \A e \in ExtFilters :
       MatchesExtensions(n, e) <=> Passes(n, e)
  /\ Reported =>
       LET r == last.result
       IN /\ r.TotalFiles = Cardinality(Scanned)
          /\ Range(r.InvalidFiles) \subseteq Scanned
          /\ Range(r.DuplicateFiles) \subseteq Scanned
          /\ \A k \in DOMAIN r.timestampMap : Range(r.timestampMap[k]) \subseteq Scanned
          /\ r.ValidFiles = Cardinality(WellFormed)

\* a filter "A" let the entry "b.a" through and kept an entry without
\* extension out
C17_Witness ==
  /\ Reported
  /\ last.extensions = <<<<"A">>>>
  /\ last.result.TotalFiles = 1
  /\ Cardinality(Files(dir)) = 3

\* C23: a validation run over a malformed entry exits with a status other
\* than zero; a run that returns a report with no malformed and no duplicate
\* entry exits with zero.
C23_ExitStatus ==
  /\ (Reported /\ Malformed # {}) => ExitStatus(last) # 0
  /\ (Reported /\ Malformed = {} /\ Shared = {}) => ExitStatus(last) = 0

\* a run over a malformed entry and two entries of one identifier
C23_Witness ==
  /\ Reported
  /\ Malformed # {}
  /\ Shared # {}
  /\ ExitStatus(last) = 1

\* the entries the pass finds with a tag its registry lacks
UndefinedFound == IF RegistryKeys # {} THEN WithUndefined ELSE {}

\* C29: the all-clear line is printed if and only if no entry is malformed,
\* none shares its identifier and none has an undefined tag; otherwise the
\* warning line of each non-empty category is printed, and only those.
C29_AllClearIffClean ==
  Reported =>
    /\ "All files are properly formatted" \in last.verdict
         <=> (Malformed = {} /\ Shared = {} /\ UndefinedFound = {})
    /\ "Some files have invalid format" \in last.verdict <=> Malformed # {}
    /\ "Some files have duplicate timestamps" \in last.verdict <=> Shared # {}
    /\ "Some files have undefined tags" \in last.verdict <=> UndefinedFound # {}

\* a report with a malformed entry, duplicates and undefined tags
C29_Witness ==
  /\ Reported
  /\ Malformed # {}
  /\ Shared # {}
  /\ UndefinedFound # {}
  /\ Cardinality(last.verdict) = 3

\* a tag.toml that parses and defines the tag "a"
WorkingRegistry == [syntaxOk |-> TRUE, Tag |-> <<[Key |-> <<"a">>, Desc |-> <<"b">>]>>]

\* C21: LoadTagsFromTOML gives an empty registry and no error for an absent
\* file and an error for broken syntax; a validation pass over a directory
\* without tag.toml or with a broken one still returns its report, with no
\* undefined-tag finding and with the malformed and duplicate findings it
\* would have had with a registry that loads.
C21_RegistryFailureTolerated ==
  LET loaded == LoadTagsFromTOML(dir, TomlName, tomlContent)
      absent == ~Exists(dir, TomlName)
      broken == Exists(dir, TomlName) /\ ~tomlContent.syntaxOk
  IN /\ absent => loaded = [defs |-> <<>>, err |-> FALSE]
     /\ broken => loaded.err
     /\ (last.op = "validate" /\ last.err # "directory does not exist"
           /\ (absent \/ broken)) =>
          /\ last.err = ""
          /\ last.result.UndefinedTagFiles = <<>>
          /\ ~last.result.HasUndefinedTags
          /\ "Some files have undefined tags" \notin last.verdict
          /\ Range(last.result.InvalidFiles) = Malformed
          /\ Range(last.result.DuplicateFiles) = Shared
          /\ broken =>
               LET w == ValidateResult(dir, WorkingRegistry, last.extensions, <<>>)
               IN /\ last.result.InvalidFiles = w.InvalidFiles
                  /\ last.result.timestampMap = w.timestampMap
                  /\ last.result.TotalFiles = w.TotalFiles
                  /\ last.result.ValidFiles = w.ValidFiles

\* a pass over a broken tag.toml and two tagged entries of one identifier
C21_Witness ==
  /\ Reported
  /\ Exists(dir, TomlName)
  /\ ~tomlContent.syntaxOk
  /\ TomlName \in Range(last.result.InvalidFiles)
  /\ last.result.HasDuplicates
  /\ \E n \in WellFormed : Len(ParseFileName(n).Tags) > 0

-----------------------------------------------------------------------------
(* Properties of the interactive editor *)

\* EditTags has run on the answers of cin
Edited == last.op = "edittags" /\ cin.opts.Interactive

\* the custom tags the user entered, as typed
Entered == {cin.answers[i].custom.text :
              i \in {j \in 1..Len(cin.answers) :
                       ~cin.answers[j].err /\ ~cin.answers[j].custom.err}}

\* texts with a reserved character
ReservedTexts ==
  {<<"/">>, <<"_">>, <<"-">>, <<".">>, <<"a", "/">>, <<"a", "_">>, <<"-", "a">>,
   <<" ", "a", ".", "a", " ">>}

\* C18: a custom tag with one of '/', '_', '-', '.' is refused with an
\* error; the edit it was entered in fails, renames nothing and EditTags
\* hands no tag set on.
C18_ReservedCustomRefused ==
  /\ \A t \in ReservedTexts :
       LET got == promptForCustomTag([err |-> FALSE, text |-> t])
       IN got.err # "" /\ got.tag = <<>>
  /\ (Edited /\ ParseFileName(cin.file).ok /\ \E t \in Entered : HasReserved(t)) =>
       /\ last.err = "failed to get tags"
       /\ last.tags = <<>>
       /\ ~last.changed
       /\ dir = last.before

\* the user checked the sentinel and entered "a_"
C18_Witness ==
  /\ Edited
  /\ ParseFileName(cin.file).ok
  /\ <<"a", "_">> \in Entered
  /\ last.err = "failed to get tags"

\* C19: a custom tag that is empty once trimmed is refused with an error:
\* the edit does not end without one.
C19_BlankCustomRefused ==
  (Edited /\ ParseFileName(cin.file).ok /\ \E t \in Entered : TrimSpace(t) = <<>>) =>
    last.err # ""

-----------------------------------------------------------------------------
(* Properties of a session of promptForTags *)

\* the session has handed a tag set back
Returned == sess.pc = "returned" /\ sess.err = ""

\* the session returns a tag set only from a round without the sentinel
ReturnsWithoutSentinel == Returned => ~sess.addCustom

\* a step that takes a custom tag and opens the next round
TakesCustom == sess.pc = "custom" /\ sess'.pc = "select"

\* the round after a custom tag offers it first and pre-selects it with the
\* other selections of the round before
CustomOfferedNext ==
  TakesCustom =>
    /\ sess'.round = sess.round + 1
    /\ sess'.tagOptions = <<formatDisplay(sess.tagDescMap, sess'.customTag)>> \o sess.tagOptions
    /\ sess'.defaultSelection =
         Displays(sess.tagDescMap, Append(FinalTags(sess.selected), sess'.customTag))
    /\ \A i \in 1..Len(sess'.defaultSelection) :
         \E j \in 1..Len(sess'.tagOptions) : sess'.tagOptions[j] = sess'.defaultSelection[i]

\* C24: a session returns its tag set only at the end of a round whose
\* selection lacks the sentinel, and every round with the sentinel and a
\* custom tag is followed by a round that offers the custom tag first and
\* pre-selects it with the other selections.
C24_ReturnsOnlyWithoutSentinel ==
  /\ []ReturnsWithoutSentinel
  /\ [][CustomOfferedNext]_vars

\* the part of C24 about the round that follows a custom tag
C24_NextRoundOffersCustom == [][CustomOfferedNext]_vars

\* the tags are in ascending order, none twice
Normalized(tags) == \A i \in 1..(Len(tags) - 1) : Less(tags[i], tags[i + 1])

\* C25: the tag set a session returns is sorted ascending and holds no tag
\* twice.
C25_ReturnedNormalized == Returned => Normalized(sess.tags)

-----------------------------------------------------------------------------
(* Properties of a repeated SetTags *)

\* SetTags has returned for the second time or later, without error
SetAgain == ops >= 2 /\ last.op = "settags" /\ last.err = ""

\* no tag of the list holds a reserved character
ReservedFree(tags) == \A i \in 1..Len(tags) : ~HasReserved(tags[i])

\* the comment ends in '_'
EndsInUnder(comment) == comment # <<>> /\ comment[Len(comment)] = "_"

C26_Covered ==
  /\ cin.file[Len(cin.file)] # "."
  /\ (cin.tags = <<>> \/ ~EndsInUnder(ParseFileName(cin.file).Comment))

====
